---- MODULE Spec2Model ----
(***************************************************************************)
(* The subscription billing engine of scripts/subscription_cron.py as a    *)
(* state machine: the database (subscriptions, profiles, orders,           *)
(* payment_logs), the payment gateway, and the invocations of main(), each *)
(* stepping through run_all_jobs one repository or gateway call at a time. *)
(* Time is counted in hours.                                               *)
(***************************************************************************)
EXTENDS Integers, Sequences, FiniteSets, TLC

VARIABLES
  now,        \* the database clock NOW(), in hours
  env,        \* the process environment load_config reads
  subs,       \* table subscriptions (joined with subscription_tiers)
  profiles,   \* table profiles: subscription_tier of each subscription's user
  orders,     \* table orders; an order's id is its index
  logs,       \* table payment_logs, in insertion order
  inv,        \* the invocations of main(): position and local variables
  runs,       \* invocations started so far
  faults,     \* repository / resource failures so far
  gwlog,      \* history: the charge requests the gateway answered
  advlog,     \* history: the period advances committed
  retrylog,   \* history: the executions of _retry_payment
  sched       \* cron_config.py: the calls of get_cron_entries and get_systemd_timers

\* the variables of subscription_cron.py
cronVars == <<now, env, subs, profiles, orders, logs, inv, runs, faults, gwlog, advlog,
              retrylog>>

vars == <<cronVars, sched>>

---------------------------------------------------------------------------
(* Bounds of the model *)

\* invocations of the script in one behaviour
MaxRuns == 2
\* repository calls that raise in one behaviour
MaxFaults == 1
\* hours the clock advances
MaxTime == 1

Subs == {"s1", "s2"}
Procs == {"p1", "p2"}

---------------------------------------------------------------------------
(* Program constants *)

\* Config.max_retry_attempts default
DefaultMaxRetry == 3
\* INTERVAL '24 hours' of get_failed_payments
RetryWindowHours == 24
\* timedelta(days=30), timedelta(days=365), and the else branch
MonthlyDays == 30
YearlyDays == 365
OtherDays == 30

IntervalHours(interval) ==
  IF interval = "MONTHLY" THEN MonthlyDays * 24
  ELSE IF interval = "YEARLY" THEN YearlyDays * 24
  ELSE OtherDays * 24

\* the gateway's answers: HTTP 200, a non-200 status, a timeout after 30 s,
\* a transport error
GatewayOutcomes == {"accepted", "rejected", "timeout", "unreachable"}

\* a variant of GatewayRaises: only a timeout or a transport error raises
GatewayRaisesOnTransportOnly(outcome) == outcome \in {"timeout", "unreachable"}

\* a variant of GatewayRaises: no answer raises
GatewayNeverRaises(outcome) == FALSE

\* create_recurring_payment raises unless the response status is 200
GatewayRaises(outcome) == outcome # "accepted"

\* a repository call returns (TRUE) or raises (FALSE)
DbOutcomes == IF faults < MaxFaults THEN {TRUE, FALSE} ELSE {TRUE}

Jobs == <<"billing", "trials", "retries">>

---------------------------------------------------------------------------
(* Repository queries *)

\* a variant of SortedSeqs: no ORDER BY clause, the rows come in any order
UnsortedSeqs(S, key) ==
  {q \in [1..Cardinality(S) -> S] :
     \A i, j \in 1..Cardinality(S) : i # j => q[i] # q[j]}

\* ORDER BY ... ASC: the sequences listing the members of S once each, in
\* non-decreasing key; rows of equal key come in any order
SortedSeqs(S, key) ==
  {q \in [1..Cardinality(S) -> S] :
     /\ \A i, j \in 1..Cardinality(S) : i # j => q[i] # q[j]
     /\ \A i, j \in 1..Cardinality(S) : i < j => key[q[i]] <= key[q[j]]}

\* a variant of DueSet: the WHERE clause does not test the status
DueSetAnyStatus ==
  {s \in Subs : subs[s].auto_renew /\ subs[s].cpe <= now /\ subs[s].token}

DueSet ==
  {s \in Subs : /\ subs[s].status = "ACTIVE"
                /\ subs[s].auto_renew
                /\ subs[s].cpe <= now
                /\ subs[s].token}

CpeOf(s) == subs[s].cpe
get_due_subscriptions == SortedSeqs(DueSet, [s \in DueSet |-> CpeOf(s)])

\* a variant of TrialSet: the WHERE clause does not test the status
TrialSetAnyStatus == {s \in Subs : subs[s].trial_end <= now}

TrialSet ==
  {s \in Subs : /\ subs[s].status = "TRIALING"
                /\ subs[s].trial_end <= now}

TrialEndOf(s) == subs[s].trial_end
get_trial_subscriptions == SortedSeqs(TrialSet, [s \in TrialSet |-> TrialEndOf(s)])

\* a variant of RetryCountBelow: retry_count <= $1
RetryCountAtMost(count, max) == count <= max

\* pl.retry_count < $1
RetryCountBelow(count, max) == count < max

\* pl.created_at >= NOW() - INTERVAL '24 hours'
WithinWindow(created) == created >= now - RetryWindowHours

FailedSet ==
  {i \in 1..Len(logs) :
     /\ logs[i].event_type = "PAYMENT_FAILED"
     /\ logs[i].order_id # {}
     /\ \A o \in logs[i].order_id : o \in 1..Len(orders)
     /\ RetryCountBelow(logs[i].retry_count, env.max_retry_attempts)
     /\ WithinWindow(logs[i].created_at)}

CreatedOf(i) == logs[i].created_at
get_failed_payments == SortedSeqs(FailedSet, [i \in FailedSet |-> CreatedOf(i)])

---------------------------------------------------------------------------
(* Records *)

EventAt(order, sub, type, gw, status, retry, err, reason, at) ==
  [order_id |-> order, sub |-> sub, event_type |-> type, netopia_order_id |-> gw,
   status |-> status, retry_count |-> retry, error_message |-> err,
   reason |-> reason, created_at |-> at]

\* the row log_payment_event inserts: created_at is NOW()
Event(order, sub, type, gw, status, retry, err, reason) ==
  EventAt(order, sub, type, gw, status, retry, err, reason, now)

Idle ==
  [pc |-> "idle", run |-> 0, job |-> 0, queue |-> <<>>, cur |-> {}, ev |-> {}, order_id |-> 0,
   result |-> {}, err |-> "", reason |-> <<>>, session |-> FALSE, pool |-> FALSE,
   exit |-> 0, conns |-> 0, arg |-> "", summary |-> {}, excs |-> 0, pre_cpe |-> 0, pre_len |-> 0, pre_rc |-> 0, pre_row |-> {}, pre_olen |-> 0,
   pre_faults |-> 0]

\* the provider's order id for an order
GwId(o) == o + 100

\* a row of subscriptions joined with its tier
Row(st, ar, tk, due, iv) ==
  [status |-> st, auto_renew |-> ar, token |-> tk, cps |-> due - IntervalHours(iv),
   cpe |-> due, trial_end |-> due, interval |-> iv,
   cancel_at |-> IF st = "CANCELED" THEN {due} ELSE {},
   price |-> IF iv = "YEARLY" THEN 299 ELSE 29]

\* the rows a subscription may start as: active (due or not, with or without
\* a token or auto-renewal), in trial (expired or not, with or without a
\* token), or canceled; past is the hour its period or trial ended
InitRows(past, iv, trialIv) ==
  {Row("ACTIVE", TRUE, tk, due, iv) : tk \in BOOLEAN, due \in {past, 48}}
    \cup {Row("ACTIVE", FALSE, TRUE, past, iv)}
    \cup {Row("TRIALING", TRUE, tk, due, trialIv) : tk \in BOOLEAN, due \in {past, 48}}
    \cup {Row("CANCELED", TRUE, TRUE, past, iv)}

\* the fixture of test_subscription_cron.py: sub_1 active and due yesterday,
\* sub_2 in a trial that ended without a payment method
TestSubs == [s \in Subs |-> IF s = "s1" THEN Row("ACTIVE", TRUE, TRUE, -24, "MONTHLY")
                                       ELSE Row("TRIALING", TRUE, FALSE, -48, "WEEKLY")]

\* a payment-failed event the payment webhook recorded for order 1
FailedEvent(rc, age) ==
  EventAt({1}, {"s1"}, "PAYMENT_FAILED", {}, "FAILED", rc, "declined", <<>>, 0 - age)

Env(creds, max) == [creds |-> creds, max_retry_attempts |-> max]

\* every subscription state with the test's failed payment (retry_count 1,
\* two hours old); the test's subscriptions with every failed payment and
\* retry limit; and the test's data with a credential missing
InitData ==
  {<<Env("ok", DefaultMaxRetry), f, <<FailedEvent(1, 2)>> >> :
      f \in {g \in [Subs -> InitRows(-24, "MONTHLY", "MONTHLY")
                             \cup InitRows(-48, "YEARLY", "WEEKLY")] :
               /\ g["s1"] \in InitRows(-24, "MONTHLY", "MONTHLY")
               /\ g["s2"] \in InitRows(-48, "YEARLY", "WEEKLY")}}
    \cup {<<Env("ok", max), TestSubs, <<FailedEvent(rc, age)>> >> :
            max \in {1, DefaultMaxRetry}, rc \in {0, 1, DefaultMaxRetry}, age \in {2, 25}}
    \cup {<<Env(c, DefaultMaxRetry), TestSubs, <<FailedEvent(1, 2)>> >> :
            c \in {"no_api_key", "no_secret_key", "no_db_password"}}

---------------------------------------------------------------------------
(* cron_config.py: CronConfig *)

\* SCHEDULES, in the order of the dict; a schedule is its five fields
SCHEDULES ==
  << [job_name |-> "recurring_billing", schedule |-> <<"0", "*/6", "*", "*", "*">>],
     [job_name |-> "trial_processing", schedule |-> <<"0", "*", "*", "*", "*">>],
     [job_name |-> "payment_retries", schedule |-> <<"0", "*/2", "*", "*", "*">>],
     [job_name |-> "full_cleanup", schedule |-> <<"0", "2", "*", "*", "*">>],
     [job_name |-> "monitoring", schedule |-> <<"*/15", "*", "*", "*", "*">>] >>

\* the environment argument: the three of ENVIRONMENTS and any other string
Environments == {"development", "staging", "production", "test"}

\* os.getenv("PYTHON_PATH", "python3")
PythonPaths == {"python3", "/usr/bin/python3"}

\* get_cron_entries: in development four jobs run less frequently
EnvSchedule(environment, job_name, schedule) ==
  IF environment # "development" THEN schedule
  ELSE CASE job_name = "recurring_billing" -> <<"0", "*/12", "*", "*", "*">>
         [] job_name = "trial_processing" -> <<"0", "*/2", "*", "*", "*">>
         [] job_name = "payment_retries" -> <<"0", "*/4", "*", "*", "*">>
         [] job_name = "monitoring" -> <<"0", "*/30", "*", "*", "*">>
         [] OTHER -> schedule

\* the command line of a crontab entry and of a service's ExecStart
Command(python_path, job_name, environment) ==
  [python |-> python_path, script |-> "subscription_cron.py",
   job |-> job_name, env |-> environment]

\* the crontab line: schedule, command, and the log file it appends to
cron_entry(schedule, python_path, job_name, environment) ==
  [schedule |-> schedule, command |-> Command(python_path, job_name, environment),
   output |-> "/var/log/subscription_cron.log"]

\* _cron_to_systemd: minute is the first field of the schedule, hour the second
cron_to_systemd(schedule) ==
  LET minute == schedule[1]
      hour == schedule[2]
  IN CASE minute = "*/15" -> "*-*-* *:0/15:00"
       [] minute # "*/15" /\ minute = "*/30" -> "*-*-* *:0/30:00"
       [] minute \notin {"*/15", "*/30"} /\ hour = "*/2" -> "*-*-* 0/2:00:00"
       [] minute \notin {"*/15", "*/30"} /\ hour = "*/4" -> "*-*-* 0/4:00:00"
       [] minute \notin {"*/15", "*/30"} /\ hour = "*/6" -> "*-*-* 0/6:00:00"
       [] minute \notin {"*/15", "*/30"} /\ hour = "*/12" -> "*-*-* 0/12:00:00"
       [] minute = "0" /\ hour = "2" -> "*-*-* 02:00:00"
       [] OTHER -> "*-*-* *:00:00"

\* a variant of TimerKey: the file name does not hold the job's name
TimerKeyKindOnly(job_name, kind) == <<"subscription", kind>>

\* the file names subscription-{job_name}.timer and subscription-{job_name}.service
TimerKey(job_name, kind) == <<job_name, kind>>

timer_content(job_name, schedule) ==
  [description |-> job_name, requires |-> TimerKey(job_name, "service"),
   on_calendar |-> cron_to_systemd(schedule)]

service_content(python_path, job_name, environment) ==
  [description |-> job_name, exec_start |-> Command(python_path, job_name, environment)]

\* timers[key] = value on a dict
Put(dict, key, value) ==
  [k \in DOMAIN dict \cup {key} |-> IF k = key THEN value ELSE dict[k]]

EmptyDict == [k \in {} |-> {}]

\* a call of get_cron_entries(environment) and one of get_systemd_timers(environment),
\* each before its for statement: i and j count the items of SCHEDULES done
Generating(environment, python_path) ==
  [environment |-> environment, python_path |-> python_path,
   i |-> 0, entries |-> <<>>, j |-> 0, timers |-> EmptyDict]

\* the generator is not run
NotGenerating == Generating("production", "python3")

\* one iteration of get_cron_entries's for statement
get_cron_entries ==
  /\ sched.i < Len(SCHEDULES)
  /\ LET item == SCHEDULES[sched.i + 1]
         schedule == EnvSchedule(sched.environment, item.job_name, item.schedule)
     IN sched' = [sched EXCEPT !.i = @ + 1,
                               !.entries = Append(@, cron_entry(schedule, sched.python_path,
                                                                item.job_name,
                                                                sched.environment))]
  /\ UNCHANGED cronVars

\* one iteration of get_systemd_timers's for statement
get_systemd_timers ==
  /\ sched.j < Len(SCHEDULES)
  /\ LET item == SCHEDULES[sched.j + 1]
         withTimer == Put(sched.timers, TimerKey(item.job_name, "timer"),
                          timer_content(item.job_name, item.schedule))
     IN sched' = [sched EXCEPT !.j = @ + 1,
                               !.timers = Put(withTimer, TimerKey(item.job_name, "service"),
                                              service_content(sched.python_path,
                                                              item.job_name,
                                                              sched.environment))]
  /\ UNCHANGED cronVars

---------------------------------------------------------------------------
(* The initial states *)

InitWith(data, failed) ==
  /\ now = 0
  /\ \E d \in data : env = d[1] /\ subs = d[2] /\ logs = d[3]
  /\ profiles = [s \in Subs |-> IF subs[s].status = "CANCELED" THEN "free" ELSE "pro"]
  /\ orders = <<[sub |-> "s1", status |-> "FAILED", netopia_order_id |-> {}, amount |-> 29]>>
  /\ inv = [p \in Procs |-> Idle]
  /\ runs = 0
  /\ faults = failed
  /\ gwlog = {}
  /\ advlog = {}
  /\ retrylog = {}

Init == InitWith(InitData, 0) /\ sched = NotGenerating

---------------------------------------------------------------------------
(* Invocations: main() *)

Running(p) == inv[p].pc \notin {"idle", "done"}
\* a step of an invocation; the schedule generator is another program
Goto(p, r) == inv' = [inv EXCEPT ![p] = r] /\ UNCHANGED sched
DbVars == <<subs, profiles, orders, logs>>

\* self.pool.acquire(): a connection is checked out of the pool
Acquire(r) == [r EXCEPT !.conns = @ + 1]

\* a variant of Release: the connection is kept
ReleaseNever(r) == r

\* the end of an async with self.pool.acquire() block, left by return or by
\* an exception: the connection goes back to the pool
Release(r) == [r EXCEPT !.conns = @ - 1]

\* a repository method whose body is one async with self.pool.acquire()
\* block: r is the invocation when the method returns or raises
WithConn(r) == Release(Acquire(r))

\* a variant of AfterJob: the end of a job ends run_all_jobs
AfterJobStop(j, r) ==
  [r EXCEPT !.pc = "aexit_netopia", !.job = 0, !.queue = <<>>, !.cur = {}, !.ev = {},
            !.order_id = 0, !.result = {}, !.err = "", !.reason = <<>>]

\* what run_all_jobs reports when the third job has returned: the line
\* "All cron jobs completed successfully", and no count
FinalReport == {"completed successfully"}

\* a job's outer except branch: the exception is logged and the job returns
JobExcept(r) == [r EXCEPT !.excs = @ + 1]

\* the job after job j of run_all_jobs, or the end of the async with block
AfterJob(j, r) ==
  IF j < Len(Jobs)
  THEN [r EXCEPT !.pc = "fetch", !.job = j + 1, !.queue = <<>>, !.cur = {}, !.ev = {},
                 !.order_id = 0, !.result = {}, !.err = "", !.reason = <<>>]
  ELSE [r EXCEPT !.pc = "aexit_netopia", !.job = 0, !.queue = <<>>, !.cur = {}, !.ev = {},
                 !.order_id = 0, !.result = {}, !.err = "", !.reason = <<>>,
                 !.summary = FinalReport]

\* a variant of MissingCredentials: only the API key is required
MissingApiKeyOnly(e) == e.creds = "no_api_key"

\* main's checks: not netopia_api_key or not netopia_secret_key, then not
\* db_password
MissingCredentials(e) == e.creds \in {"no_api_key", "no_secret_key", "no_db_password"}

\* main: load_config, the credential checks, then SubscriptionCronManager();
\* the script is started with one of the --job values args, which main
\* never reads
Validate(p, mayOverlap, args) ==
  /\ ~Running(p)
  /\ mayOverlap \/ \A q \in Procs : ~Running(q)
  /\ runs < MaxRuns
  /\ runs' = runs + 1
  /\ \E a \in args :
       IF MissingCredentials(env)
       THEN Goto(p, [Idle EXCEPT !.pc = "done", !.run = runs + 1, !.exit = 1, !.arg = a])
       ELSE Goto(p, [Idle EXCEPT !.pc = "aenter_netopia", !.run = runs + 1, !.arg = a])
  /\ UNCHANGED <<now, env, DbVars, faults, gwlog, advlog, retrylog>>

\* python subscription_cron.py, with no --job argument
Start(p) == p = "p1" /\ Validate(p, FALSE, {""})

\* SubscriptionCronManager.__aenter__: NetopiaClient.__aenter__
AEnterNetopia(p) ==
  /\ inv[p].pc = "aenter_netopia"
  /\ Goto(p, [inv[p] EXCEPT !.pc = "aenter_db", !.session = TRUE])
  /\ UNCHANGED <<now, env, DbVars, runs, faults, gwlog, advlog, retrylog>>

\* DatabaseManager.__aenter__: create_pool; when it raises, __aexit__ is not
\* run and main exits 1
AEnterDb(p) ==
  /\ inv[p].pc = "aenter_db"
  /\ \E ok \in DbOutcomes :
       IF ok
       THEN /\ Goto(p, [inv[p] EXCEPT !.pc = "fetch", !.job = 1, !.pool = TRUE])
            /\ UNCHANGED faults
       ELSE /\ Goto(p, [inv[p] EXCEPT !.pc = "done", !.exit = 1])
            /\ faults' = faults + 1
  /\ UNCHANGED <<now, env, DbVars, runs, gwlog, advlog, retrylog>>

\* the for statement of a job: the next item of the queue, or the end of
\* the job when the queue is empty
NextItemAwaited(r) ==
  IF r.queue = <<>>
  THEN AfterJob(r.job, r)
  ELSE LET item == Head(r.queue)
           n == [r EXCEPT !.queue = Tail(@), !.cur = {}, !.ev = {},
                          !.order_id = 0, !.result = {}, !.err = "",
                          !.reason = <<>>, !.pre_len = Len(logs),
                          !.pre_olen = Len(orders), !.pre_faults = faults]
       IN CASE Jobs[r.job] = "billing" ->
                 [n EXCEPT !.pc = "renew_create", !.cur = {item},
                           !.pre_cpe = subs[item].cpe, !.pre_row = {subs[item]}]
            [] Jobs[r.job] = "trials" ->
                 [n EXCEPT !.pc = "trial_check", !.cur = {item},
                           !.pre_cpe = subs[item].cpe, !.pre_row = {subs[item]}]
            [] OTHER ->
                 [n EXCEPT !.pc = "retry_log", !.ev = {item},
                           !.pre_rc = logs[item].retry_count]

\* a variant of NextItem: an item is started while the one before it is
\* still being processed
NextItemOverlapped(r) ==
  [NextItemAwaited(r) EXCEPT !.cur = @ \cup r.cur, !.ev = @ \cup r.ev]

\* for item in queue: await the processing of the item
NextItem(r) == NextItemAwaited(r)

\* the queue read that opens each job, and the first item; a failed read
\* ends the job
Fetch(p) ==
  /\ inv[p].pc = "fetch"
  /\ \E ok \in DbOutcomes :
       IF ok
       THEN /\ \E q \in (CASE Jobs[inv[p].job] = "billing" -> get_due_subscriptions
                           [] Jobs[inv[p].job] = "trials" -> get_trial_subscriptions
                           [] OTHER -> get_failed_payments) :
                 Goto(p, NextItem(WithConn([inv[p] EXCEPT !.queue = q])))
            /\ UNCHANGED faults
       ELSE /\ Goto(p, AfterJob(inv[p].job, JobExcept(WithConn(inv[p]))))
            /\ faults' = faults + 1
  /\ UNCHANGED <<now, env, DbVars, runs, gwlog, advlog, retrylog>>

---------------------------------------------------------------------------
(* log_payment_event *)

\* a variant of JsonSerializable: json.dumps raises on every payload
JsonNeverSerializable(payload) == FALSE

\* json.dumps(raw_payload): a gateway response and a reason are JSON; a
\* database row (dict(row) of a subscription, or of a failed payment joined
\* with its order and subscription) holds datetime values such as
\* current_period_end, on which json.dumps raises TypeError
JsonSerializable(payload) == payload # "row"

\* a variant of Inserted: the new row comes first
InsertedFirst(log, event) == <<event>> \o log

\* payment_logs after INSERT INTO payment_logs ... VALUES (..., NOW())
Inserted(log, event) == Append(log, event)

\* log_payment_event(event) with raw_payload of the given kind: json.dumps
\* runs inside the async with block, before the INSERT; r is where the invocation goes when it returns,
\* f when it raises
LogPaymentEvent(p, event, payload, r, f) ==
  IF ~JsonSerializable(payload)
  THEN /\ Goto(p, WithConn(f))
       /\ UNCHANGED <<logs, faults>>
  ELSE \E ok \in DbOutcomes :
         IF ok
         THEN /\ logs' = Inserted(logs, event)
              /\ Goto(p, WithConn(r))
              /\ UNCHANGED faults
         ELSE /\ Goto(p, WithConn(f))
              /\ faults' = faults + 1
              /\ UNCHANGED logs

---------------------------------------------------------------------------
(* _process_subscription_renewal, one repository or gateway call a step *)

Cur(p) == CHOOSE s \in inv[p].cur : TRUE

\* a variant of Raised: the trial job swallows the exception
RaisedSwallowed(p, e) ==
  IF Jobs[inv[p].job] = "billing"
  THEN [inv[p] EXCEPT !.pc = "billing_fail_log", !.err = e]
  ELSE [inv[p] EXCEPT !.pc = "item_end", !.err = e]

\* an exception leaving _process_subscription_renewal: the billing job logs
\* a failure event, the trial job cancels the subscription
Raised(p, e) ==
  IF Jobs[inv[p].job] = "billing"
  THEN [inv[p] EXCEPT !.pc = "billing_fail_log", !.err = e]
  ELSE [inv[p] EXCEPT !.pc = "cancel_sub", !.err = e, !.reason = <<"charge failed", e>>]

\* a variant of NewOrder: the order is inserted as PROCESSING
NewOrderProcessing(s, amount) ==
  [sub |-> s, status |-> "PROCESSING", netopia_order_id |-> {}, amount |-> amount]

\* the row create_renewal_order inserts
NewOrder(s, amount) ==
  [sub |-> s, status |-> "PENDING", netopia_order_id |-> {}, amount |-> amount]

\* create_renewal_order: INSERT INTO orders ... 'PENDING' RETURNING id
RenewCreate(p) ==
  /\ inv[p].pc = "renew_create"
  /\ \E ok \in DbOutcomes :
       IF ok
       THEN /\ orders' = Append(orders, NewOrder(Cur(p), subs[Cur(p)].price))
            /\ Goto(p, WithConn([inv[p] EXCEPT !.pc = "renew_charge",
                                                !.order_id = Len(orders) + 1]))
            /\ UNCHANGED faults
       ELSE /\ Goto(p, WithConn(Raised(p, "db_error")))
            /\ faults' = faults + 1
            /\ UNCHANGED orders
  /\ UNCHANGED <<now, env, subs, profiles, logs, runs, gwlog, advlog, retrylog>>

\* NetopiaClient.create_recurring_payment: one charge request
RenewCharge(p) ==
  /\ inv[p].pc = "renew_charge"
  /\ \E out \in GatewayOutcomes :
       /\ gwlog' = gwlog \cup {[sub |-> Cur(p), order |-> inv[p].order_id,
                                  outcome |-> out, at |-> now, run |-> inv[p].run,
                                  job |-> Jobs[inv[p].job],
                                  paid_until |-> now + IntervalHours(subs[Cur(p)].interval)]}
       /\ IF GatewayRaises(out)
          THEN Goto(p, Raised(p, out))
          ELSE Goto(p, [inv[p] EXCEPT !.pc = "renew_order",
                                      !.result = {GwId(inv[p].order_id)}])
  /\ UNCHANGED <<now, env, DbVars, runs, faults, advlog, retrylog>>

\* a variant of UpdatedOrder: the UPDATE has no WHERE clause on the id
UpdatedOrderFirst(p) == 1

\* the order update_order_status updates: WHERE id = $1, the id
\* create_renewal_order returned
UpdatedOrder(p) == inv[p].order_id

\* update_order_status(order_id, "PROCESSING", netopia_order_id)
RenewOrder(p) ==
  /\ inv[p].pc = "renew_order"
  /\ \E ok \in DbOutcomes :
       IF ok
       THEN /\ orders' = [orders EXCEPT ![UpdatedOrder(p)] =
                            [@ EXCEPT !.status = "PROCESSING",
                                      !.netopia_order_id = inv[p].result]]
            /\ Goto(p, WithConn([inv[p] EXCEPT !.pc = "renew_period"]))
            /\ UNCHANGED faults
       ELSE /\ Goto(p, WithConn(Raised(p, "db_error")))
            /\ faults' = faults + 1
            /\ UNCHANGED orders
  /\ UNCHANGED <<now, env, subs, profiles, logs, runs, gwlog, advlog, retrylog>>

\* a variant of NewPeriodEnd: every interval counts as a month
NewPeriodEndMonthly(interval) == now + MonthlyDays * 24

\* new_period_end, from the interval of the row read at selection
NewPeriodEnd(interval) == now + IntervalHours(interval)

\* a variant of PeriodUpdated: the UPDATE also sets status = 'ACTIVE'
PeriodUpdatedActive(row, end) ==
  [row EXCEPT !.cps = now, !.cpe = end, !.status = "ACTIVE"]

\* the row after update_subscription_period's UPDATE: the two period
\* columns, and no other
PeriodUpdated(row, end) == [row EXCEPT !.cps = now, !.cpe = end]

\* update_subscription_period: current_period_start = NOW(), current_period_end = $2
RenewPeriod(p) ==
  /\ inv[p].pc = "renew_period"
  /\ \E ok \in DbOutcomes :
       IF ok
       THEN /\ subs' = [subs EXCEPT ![Cur(p)] =
                          PeriodUpdated(@, NewPeriodEnd(subs[Cur(p)].interval))]
            /\ advlog' = advlog \cup {[sub |-> Cur(p), order |-> inv[p].order_id,
                                       run |-> inv[p].run]}
            /\ Goto(p, WithConn([inv[p] EXCEPT !.pc = "renew_log"]))
            /\ UNCHANGED faults
       ELSE /\ Goto(p, WithConn(Raised(p, "db_error")))
            /\ faults' = faults + 1
            /\ UNCHANGED <<subs, advlog>>
  /\ UNCHANGED <<now, env, profiles, orders, logs, runs, gwlog, retrylog>>

\* the AUTO_RENEWAL_ATTEMPTED event, status SUCCESS, raw_payload the
\* gateway's response
RenewLog(p) ==
  /\ inv[p].pc = "renew_log"
  /\ LogPaymentEvent(p, Event({inv[p].order_id}, {Cur(p)}, "AUTO_RENEWAL_ATTEMPTED",
                              inv[p].result, "SUCCESS", 0, "", <<>>),
                     "gateway_response",
                     [inv[p] EXCEPT !.pc = "item_end"], Raised(p, "db_error"))
  /\ UNCHANGED <<now, env, subs, profiles, orders, runs, gwlog, advlog, retrylog>>

\* process_recurring_billing's except branch: the AUTO_RENEWAL_FAILED event,
\* status FAILED, no order id, raw_payload the subscription row; when
\* log_payment_event raises the job's outer except branch ends the job
BillingFailLog(p) ==
  /\ inv[p].pc = "billing_fail_log"
  /\ LogPaymentEvent(p, Event({}, {Cur(p)}, "AUTO_RENEWAL_FAILED", {}, "FAILED", 0,
                              inv[p].err, <<>>),
                     "row",
                     [inv[p] EXCEPT !.pc = "item_end"], [inv[p] EXCEPT !.pc = "job_abort"])
  /\ UNCHANGED <<now, env, subs, profiles, orders, runs, gwlog, advlog, retrylog>>

---------------------------------------------------------------------------
(* _process_trial_expiration and cancel_subscription *)

\* a variant of HasToken: every subscription counts as having a token
HasTokenAlways(row) == TRUE

\* subscription.get("netopia_token")
HasToken(row) == row.token

\* if not subscription.get("netopia_token"): cancel, else charge
TrialCheck(p) ==
  /\ inv[p].pc = "trial_check"
  /\ IF ~HasToken(subs[Cur(p)])
     THEN Goto(p, [inv[p] EXCEPT !.pc = "cancel_sub", !.reason = <<"no payment method">>])
     ELSE Goto(p, [inv[p] EXCEPT !.pc = "renew_create"])
  /\ UNCHANGED <<now, env, DbVars, runs, faults, gwlog, advlog, retrylog>>

\* cancel_subscription, first statement: status = 'CANCELED',
\* cancel_effective_at = NOW(), on a connection the method keeps until it
\* returns or raises; an exception ends the item
CancelSub(p) ==
  /\ inv[p].pc = "cancel_sub"
  /\ \E ok \in DbOutcomes :
       IF ok
       THEN /\ subs' = [subs EXCEPT ![Cur(p)] =
                          [@ EXCEPT !.status = "CANCELED", !.cancel_at = {now}]]
            /\ Goto(p, Acquire([inv[p] EXCEPT !.pc = "cancel_profile"]))
            /\ UNCHANGED faults
       ELSE /\ Goto(p, WithConn([inv[p] EXCEPT !.pc = "item_end"]))
            /\ faults' = faults + 1
            /\ UNCHANGED subs
  /\ UNCHANGED <<now, env, profiles, orders, logs, runs, gwlog, advlog, retrylog>>

\* cancel_subscription, second statement: profiles.subscription_tier = 'free'
CancelProfile(p) ==
  /\ inv[p].pc = "cancel_profile"
  /\ \E ok \in DbOutcomes :
       IF ok
       THEN /\ profiles' = [profiles EXCEPT ![Cur(p)] = "free"]
            /\ Goto(p, [inv[p] EXCEPT !.pc = "cancel_log"])
            /\ UNCHANGED faults
       ELSE /\ Goto(p, Release([inv[p] EXCEPT !.pc = "item_end"]))
            /\ faults' = faults + 1
            /\ UNCHANGED profiles
  /\ UNCHANGED <<now, env, subs, orders, logs, runs, gwlog, advlog, retrylog>>

\* cancel_subscription, third statement: the SUBSCRIPTION_CANCELED event,
\* raw_payload the reason, logged by log_payment_event on a second
\* connection; then the method's own connection is released
CancelLog(p) ==
  /\ inv[p].pc = "cancel_log"
  /\ LogPaymentEvent(p, Event({}, {Cur(p)}, "SUBSCRIPTION_CANCELED", {}, "CANCELED", 0,
                              "", inv[p].reason),
                     "reason",
                     Release([inv[p] EXCEPT !.pc = "item_end"]),
                     Release([inv[p] EXCEPT !.pc = "item_end"]))
  /\ UNCHANGED <<now, env, subs, profiles, orders, runs, gwlog, advlog, retrylog>>

---------------------------------------------------------------------------
(* _retry_payment *)

CurEv(p) == CHOOSE i \in inv[p].ev : TRUE

\* retry_count = payment.get("retry_count", 0) + 1
NextRetryCount(count) == count + 1

\* the PAYMENT_RETRY event, raw_payload the selected row; no charge request
\* follows it, and an exception ends the item
RetryLog(p) ==
  /\ inv[p].pc = "retry_log"
  /\ retrylog' = retrylog \cup {[ev |-> CurEv(p), run |-> inv[p].run, at |-> now]}
  /\ LogPaymentEvent(p, Event(logs[CurEv(p)].order_id, logs[CurEv(p)].sub,
                              "PAYMENT_RETRY", {}, "RETRYING",
                              NextRetryCount(logs[CurEv(p)].retry_count), "", <<>>),
                     "row",
                     [inv[p] EXCEPT !.pc = "item_end"], [inv[p] EXCEPT !.pc = "item_end"])
  /\ UNCHANGED <<now, env, subs, profiles, orders, runs, gwlog, advlog>>

---------------------------------------------------------------------------
(* The end of an item, of a job, of the invocation *)

\* an item is done: on to the next one
ItemEnd(p) ==
  /\ inv[p].pc = "item_end"
  /\ Goto(p, NextItem(inv[p]))
  /\ UNCHANGED <<now, env, DbVars, runs, faults, gwlog, advlog, retrylog>>

\* the job's outer except branch: the rest of the queue is dropped
JobAbort(p) ==
  /\ inv[p].pc = "job_abort"
  /\ Goto(p, AfterJob(inv[p].job, JobExcept(inv[p])))
  /\ UNCHANGED <<now, env, DbVars, runs, faults, gwlog, advlog, retrylog>>

\* SubscriptionCronManager.__aexit__: session.close(); when it raises the
\* pool is not closed and main exits 1
AExitNetopia(p) ==
  /\ inv[p].pc = "aexit_netopia"
  /\ \E ok \in DbOutcomes :
       IF ok
       THEN /\ Goto(p, [inv[p] EXCEPT !.pc = "aexit_db", !.session = FALSE])
            /\ UNCHANGED faults
       ELSE /\ Goto(p, [inv[p] EXCEPT !.pc = "done", !.exit = 1])
            /\ faults' = faults + 1
  /\ UNCHANGED <<now, env, DbVars, runs, gwlog, advlog, retrylog>>

\* DatabaseManager.__aexit__: pool.close()
AExitDb(p) ==
  /\ inv[p].pc = "aexit_db"
  /\ \E ok \in DbOutcomes :
       IF ok
       THEN /\ Goto(p, [inv[p] EXCEPT !.pc = "done", !.pool = FALSE])
            /\ UNCHANGED faults
       ELSE /\ Goto(p, [inv[p] EXCEPT !.pc = "done", !.exit = 1])
            /\ faults' = faults + 1
  /\ UNCHANGED <<now, env, DbVars, runs, gwlog, advlog, retrylog>>

\* the process is killed; nothing of it survives but what it wrote
Crash(p) ==
  /\ Running(p)
  /\ faults < MaxFaults
  /\ faults' = faults + 1
  /\ Goto(p, Idle)
  /\ UNCHANGED <<now, env, DbVars, runs, gwlog, advlog, retrylog>>

\* time passes between invocations; the first one starts at hour 0
Tick ==
  /\ \A p \in Procs : ~Running(p)
  /\ runs > 0
  /\ now < MaxTime
  /\ now' = now + 1
  /\ UNCHANGED <<env, DbVars, inv, runs, faults, gwlog, advlog, retrylog, sched>>

\* the steps of an invocation that is not killed
Work(p) ==
  \/ AEnterNetopia(p) \/ AEnterDb(p) \/ Fetch(p)
  \/ RenewCreate(p) \/ RenewCharge(p) \/ RenewOrder(p) \/ RenewPeriod(p) \/ RenewLog(p)
  \/ BillingFailLog(p)
  \/ TrialCheck(p) \/ CancelSub(p) \/ CancelProfile(p) \/ CancelLog(p)
  \/ RetryLog(p)
  \/ ItemEnd(p) \/ JobAbort(p) \/ AExitNetopia(p) \/ AExitDb(p)

Step(p) == Work(p) \/ Crash(p)

\* invocations one after another, as the schedule intends
Next ==
  \/ \E p \in Procs : Start(p) \/ Step(p)
  \/ Tick

Spec == Init /\ [][Next]_vars

\* main() takes no lock and get_cron_entries schedules the same script five
\* times, so invocations may overlap
StartOverlap(p) == Validate(p, TRUE, {""})

\* the test's data
OverlapData == {<<Env("ok", DefaultMaxRetry), TestSubs, <<FailedEvent(1, 2)>> >>}

\* overlapping invocations are explored with every repository call returning
InitOverlap == InitWith(OverlapData, MaxFaults) /\ sched = NotGenerating

\* NOW() moves on while invocations run
Elapse ==
  /\ \E p \in Procs : Running(p)
  /\ now < MaxTime
  /\ now' = now + 1
  /\ UNCHANGED <<env, DbVars, inv, runs, faults, gwlog, advlog, retrylog, sched>>

NextOverlap ==
  \/ \E p \in Procs : StartOverlap(p) \/ Work(p)
  \/ Elapse

SpecOverlap == InitOverlap /\ [][NextOverlap]_vars

\* the job names of CronConfig.SCHEDULES
ScheduledJobs ==
  {"recurring_billing", "trial_processing", "payment_retries", "full_cleanup", "monitoring"}

\* an entry of get_cron_entries starts the script with --job=<job_name>
StartJob(p) == p = "p1" /\ Validate(p, FALSE, ScheduledJobs)

\* the test's data
JobsData == {<<Env("ok", DefaultMaxRetry), TestSubs, <<FailedEvent(1, 2)>> >>}

InitJobs == InitWith(JobsData, 0) /\ sched = NotGenerating

\* the scheduled entries, one invocation after another
NextJobs ==
  \/ \E p \in Procs : StartJob(p) \/ Step(p)
  \/ Tick

SpecJobs == InitJobs /\ [][NextJobs]_vars

\* cron_config.py run for any environment and PYTHON_PATH; the two calls
\* are independent of each other
InitSchedule ==
  /\ InitWith(JobsData, 0)
  /\ \E e \in Environments, py \in PythonPaths : sched = Generating(e, py)

NextSchedule == get_cron_entries \/ get_systemd_timers

SpecSchedule == InitSchedule /\ [][NextSchedule]_vars

---------------------------------------------------------------------------
(* Properties *)

JobOf(p) == IF inv[p].job \in 1..Len(Jobs) THEN Jobs[inv[p].job] ELSE "none"

InRenewal(p) ==
  inv[p].pc \in {"renew_create", "renew_charge", "renew_order", "renew_period", "renew_log"}

\* the processing of an item has ended, normally or by ending its job
ItemDone(p, job) ==
  /\ inv[p].pc \in {"item_end", "job_abort"}
  /\ JobOf(p) = job

\* the events appended since invocation p took its current item
NewEvents(p) == (inv[p].pre_len + 1)..Len(logs)

NewOfSub(p, status) ==
  {i \in NewEvents(p) : logs[i].sub = inv[p].cur /\ logs[i].status = status}

Accepted == {c \in gwlog : c.outcome = "accepted"}

\* C1: after the billing job has processed a due subscription, also when
\* every repository call returned, either its current_period_end strictly
\* increased and exactly one SUCCESS event (and no FAILED event) was appended,
\* or it is unchanged and exactly one FAILED event (and no SUCCESS event) was
\* appended.
C1_RenewEitherOr ==
  \A p \in Procs : (ItemDone(p, "billing") /\ faults = 0) =>
    \/ /\ subs[Cur(p)].cpe > inv[p].pre_cpe
       /\ Cardinality(NewOfSub(p, "SUCCESS")) = 1
       /\ NewOfSub(p, "FAILED") = {}
    \/ /\ subs[Cur(p)].cpe = inv[p].pre_cpe
       /\ Cardinality(NewOfSub(p, "FAILED")) = 1
       /\ NewOfSub(p, "SUCCESS") = {}

\* C2: once the gateway has accepted a charge for a subscription, no later
\* charge request is issued for that subscription before the period that
\* charge paid for has ended; stated for the runs in which no repository call
\* failed and no invocation crashed.
C2_NoDoubleBilling ==
  faults = 0 =>
    \A c \in Accepted : \A d \in gwlog :
      (d.sub = c.sub /\ d.order > c.order) => d.at >= c.paid_until

\* C3: once the trial job has processed an expired trial, the subscription's
\* status is ACTIVE or CANCELED, never TRIALING; stated for the items whose
\* repository calls all returned.
C3_TrialLeavesTrialing ==
  \A p \in Procs : (ItemDone(p, "trials") /\ faults = 0) =>
    subs[Cur(p)].status \in {"ACTIVE", "CANCELED"}

\* C4: no two invocations are in the renewal path of the same subscription at
\* once, and no subscription is charged by two invocations for the same due
\* period.
C4_NoConcurrentRenewal ==
  /\ \A p, q \in Procs :
       (p # q /\ InRenewal(p) /\ InRenewal(q)) => inv[p].cur # inv[q].cur
  /\ \A c, d \in Accepted :
       (c.sub = d.sub /\ c.run # d.run) => (d.at >= c.paid_until \/ c.at >= d.paid_until)

\* C5: every period advance was preceded, in the same processing call (same
\* invocation, same order), by the gateway accepting the charge of that order.
C5_AdvanceOnlyAfterAccept ==
  \A a \in advlog : \E c \in Accepted :
    c.order = a.order /\ c.sub = a.sub /\ c.run = a.run

\* C5 witness: a period was advanced, and another charge request was refused
C5_Witness ==
  /\ advlog # {}
  /\ \E c \in gwlog : c.outcome = "rejected"

\* C6: when the processing of an item ends and the gateway accepted the
\* charge of the item's order, a payment event referencing that order has
\* been appended.
C6_AcceptedChargeHasEvent ==
  \A p \in Procs :
    (/\ ItemDone(p, "billing") \/ ItemDone(p, "trials")
     /\ \E c \in Accepted : c.order = inv[p].order_id) =>
      \E i \in 1..Len(logs) : logs[i].order_id = {inv[p].order_id}

\* C7: for every payment-failed event, _retry_payment is executed at most
\* max_retry_attempts times.
C7_RetriesBounded ==
  \A i \in 1..Len(logs) : logs[i].event_type = "PAYMENT_FAILED" =>
    Cardinality({r \in retrylog : r.ev = i}) <= env.max_retry_attempts

\* C8: a retry appends exactly one RETRYING event and issues exactly one
\* charge request for the event's order.
C8_RetryCharges ==
  \A p \in Procs : ItemDone(p, "retries") =>
    LET appended == {i \in NewEvents(p) : logs[i].status = "RETRYING"}
        calls == {c \in gwlog : c.run = inv[p].run /\ c.job = "retries"
                                /\ {c.order} = logs[CurEv(p)].order_id}
    IN Cardinality(appended) = 1 /\ Cardinality(calls) = 1

\* C9: after a retry of a payment-failed event whose retry count was n, the
\* retry count of that event, which the next selection compares with
\* max_retry_attempts, is n + 1.
C9_RetryCountIncremented ==
  \A p \in Procs : ItemDone(p, "retries") =>
    logs[CurEv(p)].retry_count = inv[p].pre_rc + 1

Eligible(i, at) ==
  /\ logs[i].event_type = "PAYMENT_FAILED"
  /\ logs[i].retry_count < env.max_retry_attempts
  /\ logs[i].created_at >= at - RetryWindowHours

\* C10: every event queued for retry or being retried, and every event
\* _retry_payment was ever executed on, was at its selection a payment-failed
\* event with retry count below max_retry_attempts and no older than 24 hours.
C10_OnlyEligibleRetried ==
  /\ \A p \in Procs : JobOf(p) = "retries" =>
       /\ \A k \in 1..Len(inv[p].queue) : Eligible(inv[p].queue[k], now)
       /\ \A i \in inv[p].ev : Eligible(i, now)
  /\ \A r \in retrylog : Eligible(r.ev, r.at)

\* C10 witness: a retry has been executed on an event with retry count 1 of 3
C10_Witness ==
  \E r \in retrylog : logs[r.ev].retry_count = 1 /\ env.max_retry_attempts = 3

\* the charge request of invocation p's current order failed
ChargeFailed(p) ==
  \E c \in gwlog : c.order = inv[p].order_id /\ c.outcome # "accepted"

\* C11: when the processing of an item of a job ends, also by a failure and
\* also when every repository call returned, the items after it in the queue
\* are still processed: the job is not ended with items left in its queue.
C11_BatchNotAborted ==
  \A p \in Procs : (inv[p].pc = "job_abort" /\ faults = 0) => inv[p].queue = <<>>

\* C12: when the gateway call of a renewal in the billing job has failed, the
\* subscription's row (status, auto_renew, token, current_period_start and
\* current_period_end) is the one read at selection, the order is PENDING,
\* and the subscription is still due for renewal.
C12_GatewayFailureLeavesDue ==
  \A p \in Procs : (JobOf(p) = "billing" /\ ChargeFailed(p)) =>
    /\ {subs[Cur(p)]} = inv[p].pre_row
    /\ orders[inv[p].order_id].status = "PENDING"
    /\ Cur(p) \in DueSet

\* C12 witness: a billing item has ended after its charge timed out
C12_Witness ==
  \E p \in Procs :
    /\ ItemDone(p, "billing")
    /\ \E c \in gwlog : c.order = inv[p].order_id /\ c.outcome = "timeout"

\* C13: after the gateway declined a charge for a subscription (non-200
\* status), no later invocation issues another charge request for that
\* subscription; stated for the runs without repository failure or crash.
C13_DeclineNotRetried ==
  faults = 0 =>
    \A c, d \in gwlog :
      (c.outcome = "rejected" /\ d.sub = c.sub) => d.run <= c.run

\* C14: when a renewal of the billing job has failed on a timeout or an
\* unreachable gateway and every repository call returned, the engine has
\* appended an event for the subscription that get_failed_payments returns.
C14_TransientFailureRetryable ==
  \A p \in Procs :
    (/\ ItemDone(p, "billing")
     /\ faults = 0
     /\ \E c \in gwlog : c.order = inv[p].order_id
                          /\ c.outcome \in {"timeout", "unreachable"}) =>
      \E i \in NewEvents(p) : logs[i].sub = inv[p].cur /\ i \in FailedSet

\* the CANCELED events appended for p's subscription since p took its item
CanceledEvents(p) ==
  {i \in NewEvents(p) : /\ logs[i].sub = inv[p].cur
                        /\ logs[i].event_type = "SUBSCRIPTION_CANCELED"
                        /\ logs[i].status = "CANCELED"}

\* C15: when the processing of a subscription ends and a repository
\* operation failed during it, no partial mutation is committed: the
\* subscription's row is the one read at selection (so it is selected again)
\* and no order was added.
C15_NoPartialMutation ==
  \A p \in Procs :
    (/\ ItemDone(p, "billing") \/ ItemDone(p, "trials")
     /\ faults > inv[p].pre_faults) =>
      /\ {subs[Cur(p)]} = inv[p].pre_row
      /\ Len(orders) = inv[p].pre_olen

\* C16: when the processing of an expired trial ends, also after a failure
\* in the middle of cancel_subscription, the four effects of Cancel are all
\* visible or none is: status CANCELED, the cancellation-effective timestamp,
\* the free tier, and a CANCELED event carrying the reason.
C16_CancelAtomic ==
  \A p \in Procs : ItemDone(p, "trials") =>
    LET canceled == subs[Cur(p)].status = "CANCELED"
        stamped == subs[Cur(p)].cancel_at # {}
        free == profiles[Cur(p)] = "free"
        logged == \E i \in CanceledEvents(p) : logs[i].reason = inv[p].reason
    IN \/ canceled /\ stamped /\ free /\ logged
       \/ ~canceled /\ ~stamped /\ ~free /\ ~logged

\* the first statement of cancel_subscription runs in invocation p
CancelApplied(p) ==
  /\ inv[p].pc = "cancel_sub"
  /\ inv'[p].pc = "cancel_profile"

\* C17: cancel_subscription applied to a subscription that is already
\* CANCELED leaves its record (status, cancellation-effective timestamp) and
\* its user's tier as they were.
C17_CancelIdempotent ==
  [][\A p \in Procs :
       (CancelApplied(p) /\ subs[Cur(p)].status = "CANCELED") =>
         /\ subs'[Cur(p)] = subs[Cur(p)]
         /\ profiles'[Cur(p)] = profiles[Cur(p)]]_vars

\* the row of p's subscription as read at selection
PreRow(p) == CHOOSE r \in inv[p].pre_row : TRUE

\* the repository calls that raised since p took its item
ItemFaults(p) == faults - inv[p].pre_faults

\* the charge requests invocation p issued for its current subscription
ItemCharges(p) == {c \in gwlog : c.sub \in inv[p].cur /\ c.run = inv[p].run}

\* C18: when the trial job has processed an expired trial without a token,
\* no order was created and no charge request issued, and, the calls of
\* cancel_subscription having returned, the status is CANCELED, the tier is
\* free and the CANCELED event's reason contains "no payment method".
C18_NoTokenCancels ==
  \A p \in Procs : (ItemDone(p, "trials") /\ ~PreRow(p).token) =>
    /\ inv[p].order_id = 0
    /\ Len(orders) = inv[p].pre_olen
    /\ ItemCharges(p) = {}
    /\ ItemFaults(p) = 0 =>
         /\ subs[Cur(p)].status = "CANCELED"
         /\ profiles[Cur(p)] = "free"
         /\ \E i \in CanceledEvents(p) :
              \E k \in DOMAIN logs[i].reason : logs[i].reason[k] = "no payment method"

\* C18 witness: a trial without a token has been processed and is canceled
C18_Witness ==
  \E p \in Procs :
    /\ ItemDone(p, "trials")
    /\ ~PreRow(p).token
    /\ subs[Cur(p)].status = "CANCELED"
    /\ profiles[Cur(p)] = "free"

\* C19: when the trial job has processed an expired trial with a token, the
\* renewal path has run: either it completed and advanced the period, or it
\* raised, and then, the calls of cancel_subscription having returned, the
\* subscription is CANCELED with a reason that embeds the failure message.
C19_FailedTrialChargeCancels ==
  \A p \in Procs : (ItemDone(p, "trials") /\ PreRow(p).token) =>
    IF inv[p].err = ""
    THEN \E a \in advlog : a.order = inv[p].order_id /\ a.run = inv[p].run
    ELSE ItemFaults(p) = (IF inv[p].err = "db_error" THEN 1 ELSE 0) =>
           /\ subs[Cur(p)].status = "CANCELED"
           /\ \E i \in CanceledEvents(p) :
                logs[i].reason = <<"charge failed", inv[p].err>>

\* C19 witness: a trial with a token was canceled after the gateway declined
C19_Witness ==
  \E p \in Procs :
    /\ ItemDone(p, "trials")
    /\ inv[p].err = "rejected"
    /\ subs[Cur(p)].status = "CANCELED"

\* C20: a renewal past create_renewal_order has created exactly one order,
\* PENDING when created, for its subscription at the tier's price; every
\* charge request names an order created before it, one request per order;
\* and an order leaves PENDING only after the gateway answered its request.
C20_OneOrderPerRenewal ==
  /\ \A p \in Procs :
       /\ inv[p].pc \in {"renew_create", "trial_check"} => Len(orders) = inv[p].pre_olen
       /\ inv[p].pc \in {"renew_charge", "renew_order", "renew_period", "renew_log"} =>
            /\ Len(orders) = inv[p].pre_olen + 1
            /\ inv[p].order_id = Len(orders)
            /\ orders[inv[p].order_id].sub = Cur(p)
            /\ orders[inv[p].order_id].amount = subs[Cur(p)].price
       /\ inv[p].pc = "renew_charge" => orders[inv[p].order_id].status = "PENDING"
       /\ (ItemDone(p, "billing") \/ ItemDone(p, "trials")) =>
            Len(orders) <= inv[p].pre_olen + 1
  /\ \A c \in gwlog :
       /\ c.order \in 1..Len(orders)
       /\ orders[c.order].sub = c.sub
       /\ \A d \in gwlog : d.order = c.order => d = c
  /\ \A o \in 1..Len(orders) :
       orders[o].status \notin {"PENDING", "FAILED"} =>
         \E c \in gwlog : c.order = o /\ c.outcome = "accepted"

\* C20 witness: one order was updated after its charge was accepted, another
\* is PENDING after its charge was declined
C20_Witness ==
  /\ \E o \in 1..Len(orders) : orders[o].status = "PROCESSING"
  /\ \E c \in gwlog : c.outcome = "rejected" /\ orders[c.order].status = "PENDING"

\* the place of a status on the way PENDING, PROCESSING, terminal
Rank(status) ==
  IF status = "PENDING" THEN 0 ELSE IF status = "PROCESSING" THEN 1 ELSE 2

\* C21: no order's status ever moves backwards on the way PENDING,
\* PROCESSING, terminal (COMPLETED or FAILED), no order is removed, and an
\* order is PROCESSING only if the gateway accepted its charge.
C21_OrderStatusMonotonic ==
  /\ [](\A o \in 1..Len(orders) :
          orders[o].status = "PROCESSING" =>
            \E c \in gwlog : c.order = o /\ c.outcome = "accepted")
  /\ [][/\ Len(orders') >= Len(orders)
        /\ \A o \in 1..Len(orders) :
             Rank(orders'[o].status) >= Rank(orders[o].status)]_vars

\* C21 witness: the second invocation has moved its order to PROCESSING
\* beside a FAILED and a PENDING order
C21_Witness ==
  /\ Len(orders) >= 3
  /\ orders[1].status = "FAILED"
  /\ \E o \in 1..Len(orders) : orders[o].status = "PENDING"
  /\ orders[Len(orders)].status = "PROCESSING"

\* C22: the payment-event log is append-only: every step leaves the events
\* already appended as they are, as a prefix of the new log.
C22_LogAppendOnly ==
  [][/\ Len(logs') >= Len(logs)
     /\ SubSeq(logs', 1, Len(logs)) = logs]_vars

\* C22 witness: the engine has appended a SUCCESS and a CANCELED event
C22_Witness ==
  /\ \E i \in 2..Len(logs) : logs[i].status = "SUCCESS"
  /\ \E i \in 2..Len(logs) : logs[i].status = "CANCELED"

\* the SUCCESS events appended for order o with gateway id g since p took
\* its item
SuccessEvents(p, o, g) ==
  {i \in NewEvents(p) : /\ logs[i].status = "SUCCESS"
                        /\ logs[i].order_id = {o}
                        /\ logs[i].netopia_order_id = {g}}

\* C23: when a renewal has ended whose charge the gateway accepted with
\* provider order id G, and the repository calls of the item returned, the
\* order created for it is PROCESSING and carries G, and exactly one SUCCESS
\* event was appended, which references that order and G.
C23_AcceptedRenewalRecorded ==
  \A p \in Procs :
    (/\ ItemDone(p, "billing") \/ ItemDone(p, "trials")
     /\ \E c \in Accepted : c.order = inv[p].order_id
     /\ ItemFaults(p) = 0) =>
      /\ orders[inv[p].order_id].status = "PROCESSING"
      /\ orders[inv[p].order_id].netopia_order_id = {GwId(inv[p].order_id)}
      /\ Cardinality(SuccessEvents(p, inv[p].order_id, GwId(inv[p].order_id))) = 1
      /\ Cardinality({i \in NewEvents(p) : logs[i].status = "SUCCESS"}) = 1

\* C23 witness: a billing renewal has ended with its SUCCESS event appended
C23_Witness ==
  \E p \in Procs :
    /\ ItemDone(p, "billing")
    /\ inv[p].order_id > 0
    /\ SuccessEvents(p, inv[p].order_id, GwId(inv[p].order_id)) # {}

\* C24: right after update_subscription_period the subscription's
\* current_period_start is now and its current_period_end is now plus 30
\* days for MONTHLY, 365 days for YEARLY and 30 days for any other interval,
\* and, for a subscription that was due (its current_period_end not after
\* now), is greater than the current_period_end it had when selected.
C24_PeriodEndArithmetic ==
  \A p \in Procs : inv[p].pc = "renew_log" =>
    LET row == subs[Cur(p)]
        days == IF PreRow(p).interval = "YEARLY" THEN 365 ELSE 30
    IN /\ row.cps = now
       /\ row.cpe = now + days * 24
       /\ PreRow(p).cpe <= now => row.cpe > PreRow(p).cpe

\* C24 witness: a MONTHLY subscription was renewed and the period of a
\* YEARLY one has just been advanced
C24_Witness ==
  /\ \E p \in Procs : inv[p].pc = "renew_log" /\ PreRow(p).interval = "YEARLY"
  /\ \E a \in advlog : subs[a.sub].interval = "MONTHLY"

\* C25: an invocation that is not killed runs billing, then trials, then
\* retries: the first job starts when the pool is open, a job starts only
\* when the one before it has ended (its queue read failed, its queue is
\* exhausted or its outer except branch ran), the block is left only after
\* the third job, and a job that ended by an exception is followed by the
\* next job.
C25_JobsInOrder ==
  [][\A p \in Procs : inv'[p].pc # "idle" =>
       /\ inv'[p].job # inv[p].job =>
            \/ inv[p].pc = "aenter_db" /\ inv'[p].job = 1 /\ inv'[p].pc = "fetch"
            \/ /\ inv[p].job \in 1..(Len(Jobs) - 1)
               /\ inv[p].pc \in {"fetch", "item_end", "job_abort"}
               /\ inv[p].pc = "item_end" => inv[p].queue = <<>>
               /\ inv'[p].job = inv[p].job + 1
               /\ inv'[p].pc = "fetch"
            \/ /\ inv[p].job = Len(Jobs)
               /\ inv[p].pc \in {"fetch", "item_end", "job_abort"}
               /\ inv'[p].pc = "aexit_netopia"
       /\ (inv[p].pc = "job_abort" \/ (inv[p].pc = "fetch" /\ faults' > faults)) =>
            IF inv[p].job < Len(Jobs)
            THEN inv'[p].job = inv[p].job + 1 /\ inv'[p].pc = "fetch"
            ELSE inv'[p].pc = "aexit_netopia"]_vars

\* the first invocation reads the retries queue although its billing job
\* failed: a subscription is due, yet no order and no charge was made
C25_Witness ==
  \E p \in Procs :
    /\ runs = 1 /\ inv[p].job = Len(Jobs) /\ inv[p].pc = "fetch"
    /\ faults = 1 /\ DueSet # {} /\ gwlog = {} /\ Len(orders) = 1

\* C26: when invocations do not overlap, an invocation issues at most one
\* charge request for a subscription, and a subscription enters the renewal
\* path only if the invocation has not charged it or advanced its period.
C26_NoDoubleProcessing ==
  /\ [](\A c, d \in gwlog : (c.sub = d.sub /\ c.run = d.run) => c = d)
  /\ [][\A p \in Procs :
          (inv'[p].pc = "renew_create" /\ inv[p].pc # "renew_create") =>
            /\ \A c \in gwlog : ~(c.sub \in inv'[p].cur /\ c.run = inv'[p].run)
            /\ \A a \in advlog : ~(a.sub \in inv'[p].cur /\ a.run = inv'[p].run)]_vars

\* one invocation charged a subscription in its billing job and another in
\* its trials job
C26_Witness ==
  \E c, d \in gwlog : c.run = d.run /\ c.job = "billing" /\ d.job = "trials"

\* C27: when the API key, the secret key or the database password is
\* missing, every invocation that has started has ended with exit status 1
\* and has opened no session and no pool; no queue was read, no charge was
\* requested, and the subscriptions, profiles, orders and payment logs are
\* as they were.
C27_ConfigErrorFatal ==
  env.creds # "ok" =>
    /\ \A p \in Procs :
         /\ inv[p].pc \in {"idle", "done"}
         /\ inv[p].pc = "done" => inv[p].exit = 1
         /\ ~inv[p].session /\ ~inv[p].pool
         /\ inv[p].job = 0 /\ inv[p].queue = <<>>
    /\ gwlog = {} /\ advlog = {} /\ retrylog = {} /\ faults = 0
    /\ subs = TestSubs
    /\ profiles = [s \in Subs |-> "pro"]
    /\ Len(orders) = 1 /\ orders[1].status = "FAILED"
    /\ logs = <<FailedEvent(1, 2)>>

\* an invocation without the database password has ended with exit status 1
C27_Witness ==
  /\ env.creds = "no_db_password"
  /\ \E p \in Procs : inv[p].pc = "done" /\ inv[p].exit = 1 /\ inv[p].run = 1

\* C28: while a charge request is about to be sent or in flight the
\* invocation has no connection checked out of the pool, and the order the
\* request is for is already stored as PENDING; the request itself changes
\* no table, and the invocation still holds no connection when it returns.
C28_NoConnectionAcrossCharge ==
  /\ [](\A p \in Procs : inv[p].pc = "renew_charge" =>
          /\ inv[p].conns = 0
          /\ inv[p].order_id \in 1..Len(orders)
          /\ orders[inv[p].order_id] = NewOrder(Cur(p), subs[Cur(p)].price))
  /\ [][\A p \in Procs : (inv[p].pc = "renew_charge" /\ gwlog' # gwlog) =>
          /\ UNCHANGED DbVars
          /\ inv'[p].conns = 0]_vars

\* a charge request is about to be sent for the third order, after a
\* cancellation that held a connection over its three statements
C28_Witness ==
  \E p \in Procs :
    /\ inv[p].pc = "renew_charge" /\ inv[p].order_id >= 2
    /\ \E i \in 1..Len(logs) : logs[i].status = "CANCELED"

\* C29: an invocation processes at most one item at a time: the next item
\* of a queue, always its head, is taken only when the queue has just been
\* read or the item before it has ended, so a charge request is made for
\* the one subscription being processed.
C29_ItemsSequential ==
  /\ [](\A p \in Procs :
          /\ Cardinality(inv[p].cur) + Cardinality(inv[p].ev) <= 1
          /\ inv[p].pc = "renew_charge" => Cardinality(inv[p].cur) = 1)
  /\ [][\A p \in Procs :
          (inv'[p].pc # "idle" /\ <<inv'[p].cur, inv'[p].ev>> # <<inv[p].cur, inv[p].ev>>) =>
            /\ inv[p].pc \in {"fetch", "item_end", "job_abort"}
            /\ (inv[p].pc = "item_end" /\ inv[p].queue # <<>>) =>
                 /\ inv'[p].cur \cup inv'[p].ev = {Head(inv[p].queue)}
                 /\ inv'[p].queue = Tail(inv[p].queue)
                 /\ inv'[p].job = inv[p].job]_vars

\* the billing job is about to charge the second subscription of its queue,
\* after it charged the first
C29_Witness ==
  \E p \in Procs :
    /\ inv[p].pc = "renew_charge" /\ JobOf(p) = "billing"
    /\ \E c \in gwlog : c.run = inv[p].run /\ c.job = "billing" /\ c.sub \notin inv[p].cur

\* C30: when an invocation has ended, the gateway session and the
\* connection pool it opened are closed.
C30_ResourcesReleased ==
  \A p \in Procs : inv[p].pc = "done" => ~inv[p].session /\ ~inv[p].pool

\* the job a --job value names
NamedJob(arg) ==
  CASE arg = "recurring_billing" -> "billing"
    [] arg = "trial_processing" -> "trials"
    [] arg = "payment_retries" -> "retries"
    [] OTHER -> "none"

\* C31: an invocation started for one named job reads and processes only
\* that job's queue: started with --job=recurring_billing, trial_processing
\* or payment_retries, whenever it is in a job it is in the billing, trials
\* or retries job respectively.
C31_OnlyNamedJob ==
  \A p \in Procs :
    (NamedJob(inv[p].arg) # "none" /\ JobOf(p) # "none") => JobOf(p) = NamedJob(inv[p].arg)

\* C32: when run_all_jobs has returned, the invocation has reported the
\* counts of processed, succeeded, failed and skipped items, and it has
\* reported the exceptions of its jobs when there were any.
C32_SummaryReported ==
  \A p \in Procs : inv[p].summary # {} =>
    /\ "counts" \in inv[p].summary
    /\ inv[p].excs > 0 => "job exceptions" \in inv[p].summary

\* C33: when the processing of an item whose charge request timed out has
\* ended and every repository call of the item returned, a FAILED or
\* CANCELED event has been appended for the subscription and the job goes on
\* with the next item of its queue.
C33_TimeoutDoesNotBlock ==
  \A p \in Procs :
    (/\ ItemDone(p, "billing") \/ ItemDone(p, "trials")
     /\ ItemFaults(p) = 0
     /\ \E c \in gwlog : c.order = inv[p].order_id /\ c.outcome = "timeout") =>
      /\ NewOfSub(p, "FAILED") \cup NewOfSub(p, "CANCELED") # {}
      /\ inv[p].pc = "item_end"

\* C34: when invocations do not overlap, a subscription the billing job is
\* about to charge is ACTIVE with auto_renew set, a token stored and a
\* current_period_end not after now; no job is about to charge or to cancel
\* a subscription that is CANCELED.
C34_BillingChargesOnlyDue ==
  \A p \in Procs :
    /\ (inv[p].pc = "renew_charge" /\ JobOf(p) = "billing") =>
         /\ subs[Cur(p)].status = "ACTIVE"
         /\ subs[Cur(p)].auto_renew
         /\ subs[Cur(p)].token
         /\ subs[Cur(p)].cpe <= now
    /\ inv[p].pc \in {"renew_create", "renew_charge", "cancel_sub"} =>
         subs[Cur(p)].status # "CANCELED"

\* the billing job of a second invocation is about to charge a subscription
\* while another subscription is CANCELED
C34_Witness ==
  \E p \in Procs :
    /\ inv[p].pc = "renew_charge" /\ JobOf(p) = "billing" /\ inv[p].run = 2
    /\ \E s \in Subs : subs[s].status = "CANCELED"

\* C35: no step removes a subscription, a subscription that is CANCELED
\* stays CANCELED, and the only status a step gives a subscription is
\* CANCELED.
C35_CanceledTerminal ==
  [][/\ DOMAIN subs' = DOMAIN subs
     /\ \A s \in DOMAIN subs :
          /\ subs[s].status = "CANCELED" => subs'[s].status = "CANCELED"
          /\ subs'[s].status # subs[s].status => subs'[s].status = "CANCELED"]_vars

\* a subscription the engine canceled at hour 0 is still CANCELED after a
\* second invocation ended an hour later, in which a period was advanced
C35_Witness ==
  /\ now = 1
  /\ \E s \in Subs : subs[s].status = "CANCELED" /\ subs[s].cancel_at = {0}
  /\ \E p \in Procs : inv[p].run = 2 /\ inv[p].pc = "done"
  /\ \E a \in advlog : a.run = 2

\* the due timestamp of the members of job's queue: current_period_end,
\* trial_end, or created_at
DueAt(job, item) ==
  CASE job = "billing" -> subs[item].cpe
    [] job = "trials" -> subs[item].trial_end
    [] OTHER -> logs[item].created_at

C37_OneEntryPerJob ==
  /\ Cardinality(ScheduledJobs) = 5
  /\ sched.i = Len(SCHEDULES) =>
       /\ Len(sched.entries) = 5
       /\ \A job \in ScheduledJobs :
            Cardinality({k \in 1..Len(sched.entries) :
                           sched.entries[k].command.job = job}) = 1
       /\ \A k \in 1..Len(sched.entries) :
            /\ sched.entries[k].command.script = "subscription_cron.py"
            /\ sched.entries[k].command.env = sched.environment
  /\ sched.j = Len(SCHEDULES) =>
       /\ Cardinality(DOMAIN sched.timers) = 10
       /\ DOMAIN sched.timers = ScheduledJobs \X {"timer", "service"}
       /\ \A job \in ScheduledJobs :
            /\ sched.timers[<<job, "timer">>].requires = <<job, "service">>
            /\ sched.timers[<<job, "service">>].exec_start.job = job
            /\ sched.timers[<<job, "service">>].exec_start.script = "subscription_cron.py"

\* both calls have returned for the development environment
C37_Witness ==
  /\ sched.environment = "development"
  /\ sched.i = Len(SCHEDULES) /\ sched.j = Len(SCHEDULES)
  /\ Len(sched.entries) = 5 /\ Cardinality(DOMAIN sched.timers) = 10

\* C38: when the processing of an item for which an order was created has
\* ended and every repository call of the item returned, payment_logs holds
\* an event carrying the order's id.
C38_OrderHasEvent ==
  \A p \in Procs :
    (/\ ItemDone(p, "billing") \/ ItemDone(p, "trials")
     /\ inv[p].order_id > 0
     /\ ItemFaults(p) = 0) =>
      \E i \in 1..Len(logs) : logs[i].order_id = {inv[p].order_id}

\* C39: the execution of _retry_payment on an event changes no
\* subscription, no profile and no order, and, its repository call
\* returning, it appends exactly one event to payment_logs, a RETRYING
\* event, leaving the rows before it as they were.
C39_RetryOnlyAppends ==
  [][\A p \in Procs : (inv[p].pc = "retry_log" /\ inv'[p].pc # "idle") =>
       /\ subs' = subs /\ profiles' = profiles /\ orders' = orders
       /\ faults' = faults =>
            /\ Len(logs') = Len(logs) + 1
            /\ SubSeq(logs', 1, Len(logs)) = logs
            /\ logs'[Len(logs')].status = "RETRYING"]_vars

====
